---- MODULE Spec2Model ----
(***************************************************************************)
(* Ticker-pattern scanning engine of woldebotz: the scan functions of      *)
(* logic.py (fetch_and_process, fetch_imbalance, fetch_range_ai) and the   *)
(* background scans, refresh/stop handlers and history file of app.py.     *)
(*                                                                         *)
(* Prices are integers in units of 0.00001 of a currency unit, the finest  *)
(* step a threshold of the code has (max_wick + 0.00001): 1.00 is 100000,  *)
(* 0.10 is 10000, 0.051 is 5100.  Dates are day numbers.                   *)
(***************************************************************************)
EXTENDS Integers, Sequences, FiniteSets, TLC

(***************************************************************************)
(* Bounds of the model.                                                    *)
(***************************************************************************)
\* longest ticker list handed to a scan function called directly
MaxTickers == 3
\* refresh requests accepted in one run of the web process
MaxScans == 2
\* most tickers in tickers.txt
MaxFile == 1
\* longest ticker written freely over the model's alphabet
MaxSymLen == 4
\* most bars of a series drawn around the range and spread thresholds
MaxBars == 3
\* most bars of each kind whose wick is over the limit, or out of the window
MaxOdd == 1
\* last calendar day of the price history of a dividend analysis
MaxDay == 6

(***************************************************************************)
(* Program constants.                                                      *)
(***************************************************************************)
\* total_range <= 1.00 (logic.py:230)
RangeLimit == 100000
\* avg_daily_spread >= 0.10 (logic.py:230)
SpreadFloor == 10000
\* len(red_bars) >= 12 (logic.py:235)
RedBarsMin == 12
\* (High - Open) <= 0.051 (logic.py:236)
RedWickLimit == 5100
\* low_min + 0.10, high_max - 0.10 (logic.py:349)
ZoneBuffer == 10000
\* max_wick + 0.00001 (logic.py:281, 285)
WickTolerance == 1

(***************************************************************************)
(* OHLC bars and series (pandas DataFrame rows, date ascending).           *)
(***************************************************************************)
Bar(o, h, l, c, d) ==
    [Open |-> o, High |-> h, Low |-> l, Close |-> c, date |-> d, nan |-> FALSE]

\* a row whose fields are all missing
NaNBar(d) ==
    [Open |-> 0, High |-> 0, Low |-> 0, Close |-> 0, date |-> d, nan |-> TRUE]

SetMax(S) == CHOOSE x \in S : \A y \in S : y <= x

SetMin(S) == CHOOSE x \in S : \A y \in S : x <= y

RECURSIVE SeqSum(_)
SeqSum(s) == IF s = <<>> THEN 0 ELSE Head(s) + SeqSum(Tail(s))

\* df.dropna(how='all')
DropNa(df) == SelectSeq(df, LAMBDA b : ~b.nan)

\* df.tail(k)
TailRows(df, k) ==
    IF k >= Len(df) THEN df
    ELSE IF k <= 0 THEN <<>>
    ELSE SubSeq(df, Len(df) - k + 1, Len(df))

Highs(df) == {df[j].High : j \in 1..Len(df)}

Lows(df) == {df[j].Low : j \in 1..Len(df)}

(***************************************************************************)
(* Ticker spellings.  A ticker is the sequence of its characters.          *)
(***************************************************************************)
Letters == {"A", "B", "C", "D", "E", "F", "G", "H", "I", "L", "N", "O", "P",
            "R", "T", "U", "W"}

\* raw_ticker.split('-')
RECURSIVE Split(_)
Split(s) ==
    IF \A j \in 1..Len(s) : s[j] # "-" THEN << s >>
    ELSE LET d == SetMin({j \in 1..Len(s) : s[j] = "-"})
         IN  << SubSeq(s, 1, d - 1) >> \o Split(SubSeq(s, d + 1, Len(s)))

\* '-' in raw_ticker
HasDash(s) == \E j \in 1..Len(s) : s[j] = "-"

\* TICKER_MAPPINGS as pairs << user ticker, provider ticker >>
TICKER_MAPPINGS ==
    { << <<"P","C","G","-","I">>, <<"P","C","G","-","P","I">> >>,
      << <<"W","R","B","-","F">>, <<"W","R","B","-","P","F">> >>,
      << <<"C","N","O","-","A">>, <<"C","N","O","-","P","A">> >>,
      << <<"E","T","I","-">>, <<"E","T","I","-","P">> >>,
      << <<"N","E","E","-","N">>, <<"N","E","E","-","P","N">> >>,
      << <<"P","B","I","-","B">>, <<"P","B","I","-","P","B">> >>,
      << <<"W","R","B","-","E">>, <<"W","R","B","-","P","E">> >>,
      << <<"W","R","B","-","H">>, <<"W","R","B","-","P","H">> >>,
      << <<"F","-","D">>, <<"F","-","P","D">> >>,
      << <<"W","R","B","-","G">>, <<"W","R","B","-","P","G">> >>,
      << <<"A","L","L","-","B">>, <<"A","L","L","-","P","B">> >>,
      << <<"N","E","E","-","U">>, <<"N","E","E","-","P","U">> >>,
      << <<"F","-","C">>, <<"F","-","P","C">> >>,
      << <<"G","L","-","D">>, <<"G","L","-","P","D">> >> }

MappingKeys == {m[1] : m \in TICKER_MAPPINGS}

\* TICKER_MAPPINGS[raw_ticker]
Mapped(raw_ticker) == (CHOOSE m \in TICKER_MAPPINGS : m[1] = raw_ticker)[2]

\* lines 48-59: the rule for a ticker the table does not hold
DefaultRule(raw_ticker) ==
    IF HasDash(raw_ticker) /\ Len(Split(raw_ticker)) = 2
    THEN LET base == Split(raw_ticker)[1]
             suffix == Split(raw_ticker)[2]
         IN  IF Len(suffix) = 1 THEN base \o <<"-", "P">> \o suffix
             ELSE base \o <<"-">> \o suffix
    ELSE raw_ticker

\* parse_ticker_yf inserting P before a suffix of any length
parse_ticker_yf_AlwaysP(raw_ticker) ==
    IF raw_ticker \in MappingKeys THEN Mapped(raw_ticker)
    ELSE IF HasDash(raw_ticker) /\ Len(Split(raw_ticker)) = 2
    THEN Split(raw_ticker)[1] \o <<"-", "P">> \o Split(raw_ticker)[2]
    ELSE raw_ticker

\* parse_ticker_yf with the table consulted after the dash rule
parse_ticker_yf_TableLast(raw_ticker) ==
    IF HasDash(raw_ticker) /\ Len(Split(raw_ticker)) = 2
    THEN DefaultRule(raw_ticker)
    ELSE IF raw_ticker \in MappingKeys THEN Mapped(raw_ticker)
    ELSE raw_ticker

parse_ticker_yf(raw_ticker) ==
    IF raw_ticker \in MappingKeys THEN Mapped(raw_ticker)
    ELSE DefaultRule(raw_ticker)

parse_ticker_tv(raw_ticker) ==
    IF HasDash(raw_ticker) /\ Len(Split(raw_ticker)) = 2
    THEN Split(raw_ticker)[1] \o <<"/", "P">> \o Split(raw_ticker)[2]
    ELSE raw_ticker

\* lines 164-174: the base and suffix resolve_ticker_yf splits a ticker into
BaseSuffix(raw_ticker) ==
    IF HasDash(raw_ticker)
    THEN [base |-> Split(raw_ticker)[1], suffix |-> Split(raw_ticker)[2]]
    ELSE IF Len(raw_ticker) > 3 /\ raw_ticker[Len(raw_ticker)] \in Letters
            /\ Len(raw_ticker) \in {4, 5}
    THEN [base |-> SubSeq(raw_ticker, 1, Len(raw_ticker) - 1),
          suffix |-> << raw_ticker[Len(raw_ticker)] >>]
    ELSE [base |-> <<>>, suffix |-> <<>>]

\* line 177
Variations(base, suffix) ==
    << base \o <<"-", "P">> \o suffix,
       base \o <<".", "P", "R">> \o suffix,
       base \o <<"P", "-">> \o suffix,
       base \o <<"-">> \o suffix,
       base \o suffix >>

\* lines 178-179: for v in variations: if v not in candidates: append
RECURSIVE AppendNew(_, _)
AppendNew(candidates, vs) ==
    IF vs = <<>> THEN candidates
    ELSE AppendNew(IF \E j \in 1..Len(candidates) : candidates[j] = Head(vs)
                   THEN candidates ELSE Append(candidates, Head(vs)),
                   Tail(vs))

\* lines 181-184: the resolver's own override lists
ResolverOverrides(raw_ticker) ==
    IF raw_ticker = <<"P","C","G","-","I">>
    THEN << <<"P","C","G","-","P","I">>, <<"P","C","G",".","P","R","I">> >>
    ELSE IF raw_ticker = <<"W","R","B","-","F">>
    THEN << <<"W","R","B","-","P","F">>, <<"W","R","B",".","P","R","F">> >>
    ELSE <<>>

\* lines 161-186: the candidate spellings in the order they are probed
Candidates(raw_ticker) ==
    LET standard == parse_ticker_yf(raw_ticker)
        bs == BaseSuffix(raw_ticker)
        first == << standard, raw_ticker >>
        varied == IF bs.base # <<>> /\ bs.suffix # <<>>
                  THEN AppendNew(first, Variations(bs.base, bs.suffix))
                  ELSE first
    IN  varied \o ResolverOverrides(raw_ticker)

(***************************************************************************)
(* Sample series the provider may return.                                  *)
(***************************************************************************)
\* four green bars, range 0.47, mean spread 0.19, lower wicks <= 0.05
TightSeries ==
    << Bar(2500000, 2520000, 2498000, 2515000, 1),
       Bar(2515000, 2530000, 2514000, 2525000, 2),
       Bar(2525000, 2540000, 2520000, 2535000, 3),
       Bar(2535000, 2545000, 2533000, 2540000, 4) >>

\* range 1.60: no range-compression match; one green, two red with long wicks
WideSeries ==
    << Bar(2500000, 2590000, 2490000, 2580000, 1),
       Bar(2580000, 2650000, 2550000, 2560000, 2),
       Bar(2560000, 2600000, 2500000, 2510000, 3) >>

\* two qualifying green and two qualifying red bars, range 0.45;
\* touches the low zone on day 1 and the high zone from day 3
BothSeries ==
    << Bar(2500000, 2515000, 2499000, 2510000, 1),
       Bar(2510000, 2512000, 2495000, 2500000, 2),
       Bar(2500000, 2540000, 2498000, 2530000, 3),
       Bar(2530000, 2534000, 2510000, 2515000, 5) >>

\* twelve red bars with upper wick 0.05, range 0.20
RedRun ==
    [j \in 1..RedBarsMin |-> Bar(2510000, 2515000, 2495000, 2500000, j)]

\* a non-empty frame whose rows are all missing
NaNSeries == << NaNBar(1), NaNBar(2) >>

\* one bar only: shorter than every lookback
OneBar == << Bar(2500000, 2510000, 2495000, 2505000, 1) >>

(***************************************************************************)
(* What the provider answers for one ticker: the first history call raises,*)
(* is empty or has data; when empty, whether resolve_ticker_yf finds a      *)
(* spelling and what the second history call gives; cols tells whether the *)
(* frame has its OHLC columns.                                             *)
(***************************************************************************)
Answer(h, r, s, c, b) ==
    [hist |-> h, resolved |-> r, second |-> s, cols |-> c, bars |-> b]

\* the answers are named, and a state holds the names
AnswerOf(name) ==
    CASE name = "exc" -> Answer("exc", FALSE, "empty", TRUE, <<>>)
      [] name = "empty" -> Answer("empty", FALSE, "empty", TRUE, <<>>)
      [] name = "resolved" -> Answer("empty", TRUE, "data", TRUE, TightSeries)
      [] name = "resolved_exc" -> Answer("empty", TRUE, "exc", TRUE, <<>>)
      [] name = "nocols" -> Answer("data", FALSE, "empty", FALSE, TightSeries)
      [] name = "nan" -> Answer("data", FALSE, "empty", TRUE, NaNSeries)
      [] name = "tight" -> Answer("data", FALSE, "empty", TRUE, TightSeries)
      [] name = "wide" -> Answer("data", FALSE, "empty", TRUE, WideSeries)
      [] name = "both" -> Answer("data", FALSE, "empty", TRUE, BothSeries)
      [] name = "redrun" -> Answer("data", FALSE, "empty", TRUE, RedRun)
      [] name = "onebar" -> Answer("data", FALSE, "empty", TRUE, OneBar)

\* a ticker fails: provider exception, no data under any spelling,
\* malformed series
FailingAnswers == {"exc", "empty", "resolved_exc", "nocols", "nan"}

ProviderAnswers ==
    FailingAnswers \cup {"resolved", "tight", "wide", "both", "redrun", "onebar"}

\* the frame a scan function holds after its two history calls
FetchHistory(a) ==
    IF a.hist = "exc" THEN [raised |-> TRUE, df |-> <<>>]
    ELSE IF a.hist = "data" THEN [raised |-> FALSE, df |-> a.bars]
    ELSE IF ~a.resolved THEN [raised |-> FALSE, df |-> <<>>]
    ELSE IF a.second = "exc" THEN [raised |-> TRUE, df |-> <<>>]
    ELSE IF a.second = "data" THEN [raised |-> FALSE, df |-> a.bars]
    ELSE [raised |-> FALSE, df |-> <<>>]

(***************************************************************************)
(* Range-compression filter: the body of fetch_and_process for one ticker. *)
(* ctl says how the iteration ends: "continue" jumps to the next ticker    *)
(* past the progress callback, "fall" reaches the callback.                *)
(***************************************************************************)
\* the secondary "Short" sub-pattern
PrefsPattern(df) ==
    LET red_bars == SelectSeq(df, LAMBDA b : ~b.nan /\ b.Close < b.Open)
    IN  IF /\ Len(red_bars) >= RedBarsMin
           /\ \A j \in 1..Len(red_bars) :
                 red_bars[j].High - red_bars[j].Open <= RedWickLimit
        THEN "Short" ELSE "None"

\* line 230 with the mean compared as a sum: both bounds excluded
PrefsMatchStrict(total_range, spread_sum, n) ==
    total_range < RangeLimit /\ spread_sum > SpreadFloor * n

\* line 230: total_range <= 1.00 and avg_daily_spread >= 0.10, the mean
\* of n spreads compared as their sum
PrefsMatch(total_range, spread_sum, n) ==
    total_range <= RangeLimit /\ spread_sum >= SpreadFloor * n

\* lines 206-252 for the answer a
EvalPrefsOn(t, a) ==
    LET f == FetchHistory(a)
        rows == DropNa(f.df)
        total_range == SetMax(Highs(rows)) - SetMin(Lows(rows))
        spread_sum == SeqSum([j \in 1..Len(rows) |-> rows[j].High - rows[j].Low])
    IN  IF f.raised THEN [ctl |-> "fall", out |-> <<>>]
        ELSE IF f.df = <<>> THEN [ctl |-> "continue", out |-> <<>>]
        ELSE IF ~a.cols THEN [ctl |-> "fall", out |-> <<>>]
        ELSE IF rows = <<>> THEN [ctl |-> "continue", out |-> <<>>]
        ELSE IF PrefsMatch(total_range, spread_sum, Len(rows))
        THEN [ctl |-> "fall",
              out |-> << [ticker |-> t, spread |-> total_range,
                          pattern |-> PrefsPattern(f.df)] >>]
        ELSE [ctl |-> "fall", out |-> <<>>]

EvalPrefs(t, name) == EvalPrefsOn(t, AnswerOf(name))

(***************************************************************************)
(* Wick-imbalance scanner: the body of fetch_imbalance for one ticker.     *)
(* The wick limits are max_wick + 0.00001.                                 *)
(***************************************************************************)
\* the wick limit without the tolerance
WickOkExact(wick, max_wick) == wick <= max_wick

\* lines 281 and 285: wicks <= (max_wick + 0.00001)
WickOk(wick, max_wick) == wick <= max_wick + WickTolerance

\* lines 288-291 with the second test as an elif: green first, one label
PatternsFoundGreenFirst(greens, reds, min_count) ==
    IF greens >= min_count THEN << [type |-> "Long", count |-> greens] >>
    ELSE IF reds >= min_count THEN << [type |-> "Short", count |-> reds] >>
    ELSE <<>>

\* lines 287-291: patterns_found, two tests one after the other
PatternsFound(greens, reds, min_count) ==
    (IF greens >= min_count
     THEN << [type |-> "Long", count |-> greens] >> ELSE <<>>)
    \o
    (IF reds >= min_count
     THEN << [type |-> "Short", count |-> reds] >> ELSE <<>>)

\* lines 267-293 for the answer a
EvalImbalanceOn(t, a, days, min_count, max_wick) ==
    LET f == FetchHistory(a)
        df == DropNa(f.df)
        df_slice == TailRows(df, days)
        valid_green == SelectSeq(df_slice,
            LAMBDA b : b.Close > b.Open /\ WickOk(b.Open - b.Low, max_wick))
        valid_red == SelectSeq(df_slice,
            LAMBDA b : b.Open > b.Close /\ WickOk(b.High - b.Open, max_wick))
        patterns_found ==
            PatternsFound(Len(valid_green), Len(valid_red), min_count)
    IN  IF f.raised THEN <<>>
        ELSE IF df = <<>> \/ Len(df) < days THEN <<>>
        ELSE IF ~a.cols THEN <<>>
        ELSE [j \in 1..Len(patterns_found) |->
                [ticker |-> t, type |-> patterns_found[j].type,
                 match_count |-> patterns_found[j].count,
                 total_days |-> days]]

EvalImbalance(t, name, days, min_count, max_wick) ==
    EvalImbalanceOn(t, AnswerOf(name), days, min_count, max_wick)

(***************************************************************************)
(* Range AI: the body of fetch_range_ai for one ticker.  The zone scan     *)
(* assigns the function's own `days` variable at every zone transition.    *)
(***************************************************************************)
ZoneState(b, last_state, low_zone_limit, high_zone_limit) ==
    LET touched_low == b.Low <= low_zone_limit
        touched_high == b.High >= high_zone_limit
    IN  IF touched_low /\ touched_high
        THEN (IF last_state = "high" THEN "low"
              ELSE IF last_state = "low" THEN "high" ELSE "mid")
        ELSE IF touched_low THEN "low"
        ELSE IF touched_high THEN "high"
        ELSE "mid"

RECURSIVE ZoneScan(_, _, _, _)
ZoneScan(rows, low_zone_limit, high_zone_limit, z) ==
    IF rows = <<>> THEN z
    ELSE
      LET b == Head(rows)
          cur == ZoneState(b, z.last_state, low_zone_limit, high_zone_limit)
          in_zone == cur \in {"low", "high"}
          moved == in_zone /\ z.last_state # "none" /\ cur # z.last_state
          d == b.date - z.last_zone_date
          z1 == IF moved
                THEN [z EXCEPT !.days = d,
                               !.lh = IF z.last_state = "low" /\ cur = "high"
                                      THEN Append(@, d) ELSE @,
                               !.hl = IF z.last_state = "high" /\ cur = "low"
                                      THEN Append(@, d) ELSE @]
                ELSE z
          z2 == IF in_zone /\ cur # z.last_state
                THEN [z1 EXCEPT !.last_state = cur, !.last_zone_date = b.date]
                ELSE z1
      IN  ZoneScan(Tail(rows), low_zone_limit, high_zone_limit, z2)

EvalRange(t, name, days, p) ==
    LET a == AnswerOf(name)
        f == FetchHistory(a)
        df == DropNa(f.df)
        df_slice == TailRows(df, days)
        low_min == SetMin(Lows(df_slice))
        high_max == SetMax(Highs(df_slice))
        current_price == df_slice[Len(df_slice)].Close
        point_range == high_max - low_min
        passes_point == point_range <= p.max_points
        passes_percent ==
            IF low_min > 0 THEN point_range * 100 <= p.max_percent * low_min
            ELSE 0 <= p.max_percent
        keep == IF p.filter_point /\ p.filter_percent
                THEN passes_point /\ passes_percent
                ELSE IF p.filter_point THEN passes_point
                ELSE IF p.filter_percent THEN passes_percent
                ELSE TRUE
        signal == IF current_price <= low_min + ZoneBuffer THEN "Buy"
                  ELSE IF current_price >= high_max - ZoneBuffer THEN "Sell"
                  ELSE "Neutral"
        z == ZoneScan(df_slice, low_min + ZoneBuffer, high_max - ZoneBuffer,
                      [last_state |-> "none", last_zone_date |-> 0,
                       days |-> days, lh |-> <<>>, hl |-> <<>>])
    IN  IF f.raised THEN [out |-> <<>>, days |-> days]
        ELSE IF df = <<>> \/ Len(df) < days THEN [out |-> <<>>, days |-> days]
        ELSE IF df_slice = <<>> THEN [out |-> <<>>, days |-> days]
        ELSE IF ~a.cols THEN [out |-> <<>>, days |-> days]
        ELSE IF ~keep THEN [out |-> <<>>, days |-> days]
        ELSE [out |-> << [ticker |-> t, point_range |-> point_range,
                          days |-> z.days, signal |-> signal] >>,
              days |-> z.days]

(***************************************************************************)
(* State.  call, data, reports, stopFlag, stopAt: one direct call of a     *)
(* scan function with a progress sink.  cache, disk, tickers_txt, threads, *)
(* spawned: the web process (prefs_cache / imbalance_cache, the history    *)
(* files, tickers.txt, the background scan threads).  sym: the fetch of    *)
(* one ticker, from its spelling to the frame that is evaluated.  ev: one  *)
(* series under a filter.  jobs: the entry of one manual job in `jobs`     *)
(* and the thread that works on it.  div: one call of                      *)
(* analyze_dividend_recovery.                                              *)
(***************************************************************************)
VARIABLES call, data, reports, stopFlag, stopAt,
          cache, disk, tickers_txt, threads, spawned,
          sym, ev, jobs, div

fnVars == <<call, data, reports, stopFlag, stopAt>>

appVars == <<cache, disk, tickers_txt, threads, spawned>>

symVars == <<sym>>

evVars == <<ev>>

jobVars == <<jobs>>

divVars == <<div>>

vars == <<call, data, reports, stopFlag, stopAt,
         cache, disk, tickers_txt, threads, spawned, sym, ev,
         jobs, div>>

(***************************************************************************)
(* The loop of a scan function as a frame: fn, the ticker list, the index  *)
(* i of the current ticker (from 1), the matches so far, the local `days`, *)
(* and the position pc: "loop" (the head of the for loop), "body" (fetch   *)
(* and evaluate ticker i), "callback" (progress_callback in the loop),     *)
(* "final" (progress_callback(total, total) after the loop), "returned".   *)
(***************************************************************************)
FnNames == {"fetch_and_process", "fetch_imbalance", "fetch_range_ai"}

Params(d, mc, mw, mp, mpc, fp, fpc) ==
    [days |-> d, min_count |-> mc, max_wick |-> mw, max_points |-> mp,
     max_percent |-> mpc, filter_point |-> fp, filter_percent |-> fpc]

\* fetch_and_process takes no parameters
NoParams == Params(0, 0, 0, 0, 0, FALSE, FALSE)

Enter(fn, tickers, p, has_cb) ==
    [fn |-> fn, tickers |-> tickers, p |-> p, has_cb |-> has_cb, i |-> 1,
     results |-> <<>>, days |-> p.days, pc |-> "loop"]

\* the head of the for loop: the next ticker, or the end of the loop
LoopHead(f) ==
    IF f.i > Len(f.tickers)
    THEN [f EXCEPT !.pc = IF f.fn # "fetch_and_process" /\ f.has_cb
                          THEN "final" ELSE "returned"]
    ELSE [f EXCEPT !.pc = IF f.fn # "fetch_and_process" /\ f.has_cb
                          THEN "callback" ELSE "body"]

\* AfterBody with a failing ticker ending the loop (a raise past the try)
AfterBodyAbortOnFailure(f, answer) ==
    LET t == f.tickers[f.i]
        failed == answer \in FailingAnswers
        out == IF f.fn = "fetch_and_process" THEN EvalPrefs(t, answer).out
               ELSE IF f.fn = "fetch_imbalance"
               THEN EvalImbalance(t, answer, f.days, f.p.min_count, f.p.max_wick)
               ELSE EvalRange(t, answer, f.days, f.p).out
    IN  IF failed THEN [f EXCEPT !.pc = "returned"]
        ELSE IF f.fn = "fetch_and_process" /\ f.has_cb
        THEN [f EXCEPT !.results = @ \o out, !.pc = "callback"]
        ELSE [f EXCEPT !.results = @ \o out, !.i = @ + 1, !.pc = "loop",
                       !.days = IF f.fn = "fetch_range_ai"
                                THEN EvalRange(t, answer, f.days, f.p).days ELSE @]

\* AfterBody with results.insert(0, ...) in place of results.append(...)
AfterBodyPrepend(f, answer) ==
    LET t == f.tickers[f.i]
        out == IF f.fn = "fetch_and_process" THEN EvalPrefs(t, answer).out
               ELSE IF f.fn = "fetch_imbalance"
               THEN EvalImbalance(t, answer, f.days, f.p.min_count, f.p.max_wick)
               ELSE EvalRange(t, answer, f.days, f.p).out
    IN  IF f.fn = "fetch_and_process" /\ f.has_cb
           /\ EvalPrefs(t, answer).ctl = "fall"
        THEN [f EXCEPT !.results = out \o @, !.pc = "callback"]
        ELSE [f EXCEPT !.results = out \o @, !.i = @ + 1, !.pc = "loop",
                       !.days = IF f.fn = "fetch_range_ai"
                                THEN EvalRange(t, answer, f.days, f.p).days ELSE @]

\* fetch and evaluate ticker i; answer is what the provider gives for it
AfterBody(f, answer) ==
    LET t == f.tickers[f.i]
    IN  IF f.fn = "fetch_and_process"
        THEN LET e == EvalPrefs(t, answer)
             IN  IF e.ctl = "continue" \/ ~f.has_cb
                 THEN [f EXCEPT !.results = @ \o e.out, !.i = @ + 1, !.pc = "loop"]
                 ELSE [f EXCEPT !.results = @ \o e.out, !.pc = "callback"]
        ELSE IF f.fn = "fetch_imbalance"
        THEN [f EXCEPT !.results = @ \o EvalImbalance(t, answer, f.days,
                                           f.p.min_count, f.p.max_wick),
                       !.i = @ + 1, !.pc = "loop"]
        ELSE LET e == EvalRange(t, answer, f.days, f.p)
             IN  [f EXCEPT !.results = @ \o e.out, !.days = e.days,
                           !.i = @ + 1, !.pc = "loop"]

\* CallbackArg reporting the tickers left instead of the tickers handled
CallbackArgRemaining(f) ==
    IF f.pc = "final" THEN 0 ELSE Len(f.tickers) - f.i

\* the count handed to progress_callback
CallbackArg(f) ==
    IF f.pc = "final" THEN Len(f.tickers)
    ELSE IF f.fn = "fetch_and_process" THEN f.i
    ELSE f.i - 1

\* ret is what progress_callback returned: "STOP" or "None"
AfterCallback(f, ret) ==
    IF f.pc = "final" THEN [f EXCEPT !.pc = "returned"]
    ELSE IF ret = "STOP" THEN [f EXCEPT !.pc = "returned"]
    ELSE IF f.fn = "fetch_and_process" THEN [f EXCEPT !.i = @ + 1, !.pc = "loop"]
    ELSE [f EXCEPT !.pc = "body"]

\* tickers whose body has run
Processed(f) ==
    IF f.fn = "fetch_and_process" /\ f.pc = "callback" THEN f.i ELSE f.i - 1

(***************************************************************************)
(* A direct call of a scan function.  The caller's progress sink records   *)
(* the count it is handed and answers "STOP" once the caller has signalled *)
(* cancellation.                                                           *)
(***************************************************************************)
TickerPool == <<"A", "B", "A", "C", "B">>

TickerLists == {SubSeq(TickerPool, 1, n) : n \in 0..MaxTickers}

\* the answers drawn for a direct call
FnAnswers == {"exc", "empty", "nan", "tight", "both", "wide"}

\* the parameters a direct call is made with
FnParams(fn) ==
    IF fn = "fetch_and_process" THEN NoParams
    ELSE IF fn = "fetch_imbalance" THEN Params(4, 2, 5000, 0, 0, FALSE, FALSE)
    ELSE Params(3, 0, 0, 100000, 5, TRUE, TRUE)

NeverStopped == [k |-> 0, at_head |-> FALSE, set |-> FALSE]

\* a frame no call is running in
NoFrame == Enter("fetch_and_process", <<>>, NoParams, TRUE)

NoCache == [kind \in {"prefs", "imbalance"} |-> 0]

\* no ticker is being fetched
NoSym == [pc |-> "none"]

\* no series under evaluation
NoEval == [pc |-> "none"]

\* no manual job has been created
NoJob == [pc |-> "none"]

\* no dividend analysis is running
NoDiv == [pc |-> "none"]

InitFn ==
    /\ \E fn \in FnNames, tickers \in TickerLists, has_cb \in BOOLEAN :
          /\ call = Enter(fn, tickers, FnParams(fn), has_cb)
          /\ data \in [1..Len(tickers) -> FnAnswers]
    /\ reports = <<>>
    /\ stopFlag = FALSE
    /\ stopAt = NeverStopped
    /\ cache = NoCache /\ disk = NoCache /\ tickers_txt = <<>>
    /\ threads = <<>> /\ spawned = 0
    /\ sym = NoSym
    /\ ev = NoEval
    /\ jobs = NoJob
    /\ div = NoDiv

FnLoop ==
    /\ call.pc = "loop"
    /\ call' = LoopHead(call)
    /\ UNCHANGED <<data, reports, stopFlag, stopAt>>
    /\ UNCHANGED appVars
    /\ UNCHANGED symVars
    /\ UNCHANGED evVars
    /\ UNCHANGED jobVars
    /\ UNCHANGED divVars

FnBody ==
    /\ call.pc = "body"
    /\ call' = AfterBody(call, data[call.i])
    /\ UNCHANGED <<data, reports, stopFlag, stopAt>>
    /\ UNCHANGED appVars
    /\ UNCHANGED symVars
    /\ UNCHANGED evVars
    /\ UNCHANGED jobVars
    /\ UNCHANGED divVars

FnCallback ==
    /\ call.pc \in {"callback", "final"}
    /\ reports' = Append(reports, CallbackArg(call))
    /\ call' = AfterCallback(call, IF stopFlag THEN "STOP" ELSE "None")
    /\ UNCHANGED <<data, stopFlag, stopAt>>
    /\ UNCHANGED appVars
    /\ UNCHANGED symVars
    /\ UNCHANGED evVars
    /\ UNCHANGED jobVars
    /\ UNCHANGED divVars

\* the caller signals cancellation; stopAt notes how many tickers had been
\* processed and whether the function stood between two tickers
FnStop ==
    /\ call.has_cb
    /\ ~stopFlag
    /\ call.pc # "returned"
    /\ stopFlag' = TRUE
    /\ stopAt' = [k |-> Processed(call), at_head |-> call.pc = "loop", set |-> TRUE]
    /\ UNCHANGED <<call, data, reports>>
    /\ UNCHANGED appVars
    /\ UNCHANGED symVars
    /\ UNCHANGED evVars
    /\ UNCHANGED jobVars
    /\ UNCHANGED divVars

NextFn == FnLoop \/ FnBody \/ FnCallback \/ FnStop

SpecFn == InitFn /\ [][NextFn]_vars

(***************************************************************************)
(* The web process.  cache[kind] is prefs_cache / imbalance_cache,         *)
(* disk[kind] the history file of the kind, threads the background scan    *)
(* threads in the order refresh requests started them.  A thread is at     *)
(* "pending" (started, load_and_analyze_* not yet at its first statement), *)
(* "setup" (status set, before the ticker file is read), "running" (inside *)
(* the scan function, see frame.pc), "save" (cache updated, before         *)
(* save_history) or "done".  prefs_cache and imbalance_cache share nothing  *)
(* but tickers.txt, which the process only reads, so a behaviour follows   *)
(* the requests and scans of one kind: DOMAIN cache is that kind.          *)
(***************************************************************************)
Kinds == {"prefs", "imbalance"}

FnOf(kind) == IF kind = "prefs" THEN "fetch_and_process" ELSE "fetch_imbalance"

\* the parameters of each scan function's def
DefParams(fn) ==
    IF fn = "fetch_and_process" THEN {"tickers", "progress_callback"}
    ELSE IF fn = "fetch_imbalance"
    THEN {"tickers", "days", "min_count", "max_wick", "progress_callback"}
    ELSE {"tickers", "days", "max_points", "max_percent", "filter_point",
          "filter_percent", "progress_callback"}

\* the keyword arguments load_and_analyze_* passes to the scan function
CallKeywords(kind) ==
    IF kind = "prefs" THEN {"progress_callback"}
    ELSE {"days", "min_count", "max_wick", "min_profit", "filter_wick",
          "filter_profit", "progress_callback"}

\* Python raises TypeError on a keyword the def does not have
CallAccepted(kind) == CallKeywords(kind) \subseteq DefParams(FnOf(kind))

\* the defaults of refresh_imbalance: days 20, 12 bars, wick 0.05
ScanParams(kind) ==
    IF kind = "prefs" THEN NoParams ELSE Params(20, 12, 5000, 0, 0, FALSE, FALSE)

\* list(set(tickers)) of tickers.txt
TickerFiles == {SubSeq(<<"A", "B", "C">>, 1, n) : n \in 0..MaxFile}

\* tickers.txt cannot be opened
Unreadable == <<"?">>

\* what the provider may answer while a background scan runs
ScanAnswers == {"empty", "wide", "tight"}

EmptyCache ==
    [status |-> "idle", last_updated_ts |-> 0, results |-> <<>>,
     baseline_tickers |-> <<>>, progress |-> 0, total |-> 0,
     stop_requested |-> FALSE]

NoFile ==
    [exists |-> FALSE, results |-> <<>>, last_updated_ts |-> 0,
     baseline_tickers |-> <<>>]

\* a history file left by an earlier run of the process
OldFile ==
    [exists |-> TRUE,
     results |-> << [ticker |-> "A", spread |-> 47000, pattern |-> "None",
                     is_new |-> TRUE] >>,
     last_updated_ts |-> 0,
     baseline_tickers |-> <<"A">>]

\* load_history: the cache a history file gives at process start
LoadHistory(file) ==
    IF ~file.exists THEN EmptyCache
    ELSE [EmptyCache EXCEPT !.results = file.results,
                            !.last_updated_ts = file.last_updated_ts,
                            !.baseline_tickers = file.baseline_tickers,
                            !.status = IF file.results # <<>>
                                       THEN "completed" ELSE "idle"]

\* save_history: the record written from the cache
HistoryRecord(c) ==
    [exists |-> TRUE, results |-> c.results,
     last_updated_ts |-> c.last_updated_ts,
     baseline_tickers |-> c.baseline_tickers]

\* stopped notes that a stop request was handled after the refresh
\* request that started the thread was accepted and before the thread ended
NoThread ==
    [kind |-> "none", pc |-> "unused", now_ts |-> 0, baseline |-> {},
     frame |-> NoFrame, stopped |-> FALSE]

\* a thread that has ended
Finished == [NoThread EXCEPT !.pc = "done"]

\* a frame past the head of its loop
Settle(f) == IF f.pc = "loop" THEN LoopHead(f) ELSE f

\* the frames a frame can be when it is next at a progress_callback or at
\* its return, one for each way the provider can answer on the way; tickers
\* whose iteration ends in `continue` are passed without a callback
RECURSIVE ToCallback(_)
ToCallback(f) ==
    LET g == Settle(f)
    IN  IF g.pc = "body"
        THEN UNION {ToCallback(AfterBody(g, a)) : a \in ScanAnswers}
        ELSE {g}

\* lines 224-226 / 285-287 with the published results cleared as well
ScanStartedClearing(c) ==
    [c EXCEPT !.status = "processing", !.progress = 0,
              !.stop_requested = FALSE, !.results = <<>>]

\* lines 224-226 / 285-287
ScanStarted(c) ==
    [c EXCEPT !.status = "processing", !.progress = 0, !.stop_requested = FALSE]

\* line 252 / 314 leaving the status untouched
CancelledStatusStuck(c) == c.status

\* line 252 / 314: the status a cancelled scan leaves
CancelledStatus(c) == IF c.results # <<>> THEN "completed" ELSE "idle"

\* lines 257-259 / 317-320
MarkNew(results, baseline) ==
    [j \in 1..Len(results) |->
        [ticker |-> results[j].ticker, spread |-> results[j].spread,
         pattern |-> results[j].pattern,
         is_new |-> results[j].ticker \notin baseline]]

TickersOf(results) == [j \in 1..Len(results) |-> results[j].ticker]

SeqToSet(s) == {s[j] : j \in 1..Len(s)}

\* lines 263-269 / 325-331 with a scan without matches reported as failed
PublishedEmptyAsError(c, new_results, now_ts) ==
    [c EXCEPT !.results = new_results,
              !.baseline_tickers = TickersOf(new_results),
              !.status = IF new_results = <<>> THEN "error" ELSE "completed",
              !.last_updated_ts = now_ts]

\* lines 263-269 / 325-331
Published(c, new_results, now_ts) ==
    [c EXCEPT !.results = new_results,
              !.baseline_tickers = TickersOf(new_results),
              !.status = "completed",
              !.last_updated_ts = now_ts]

\* a scan that has published and is about to call save_history: its
\* baseline and new_results are not read again
Saving(th) == [NoThread EXCEPT !.kind = th.kind, !.pc = "save",
                               !.now_ts = th.now_ts]

\* a cancelled scan going on to save_history as a completed one does
CancelledSaving(th) == [th EXCEPT !.pc = "save"]

\* line 253 / 315: a cancelled scan returns
Cancelled(th) == Finished

InitApp ==
    /\ \E kind \in Kinds :
          /\ disk \in [{kind} -> {NoFile, OldFile}]
          /\ cache = [k \in {kind} |-> LoadHistory(disk[k])]
    /\ tickers_txt \in TickerFiles \cup {Unreadable}
    /\ threads = [t \in 1..MaxScans |-> NoThread]
    /\ spawned = 0
    /\ call = NoFrame /\ data = <<>> /\ reports = <<>>
    /\ stopFlag = FALSE /\ stopAt = NeverStopped
    /\ sym = NoSym
    /\ ev = NoEval
    /\ jobs = NoJob
    /\ div = NoDiv

\* POST /refresh_prefs, /refresh_imbalance: accepted unless the status reads
\* "processing"
Refresh(k) ==
    /\ cache[k].status # "processing"
    /\ spawned < MaxScans
    /\ spawned' = spawned + 1
    /\ threads' = [threads EXCEPT ![spawned + 1] =
                      [NoThread EXCEPT !.kind = k, !.pc = "pending"]]
    /\ UNCHANGED <<cache, disk, tickers_txt>>
    /\ UNCHANGED fnVars
    /\ UNCHANGED symVars
    /\ UNCHANGED evVars
    /\ UNCHANGED jobVars
    /\ UNCHANGED divVars

\* the refresh request of the thread was accepted and the thread has not
\* come to its last cache write
InFlight(th) == th.pc \in {"pending", "setup", "running"}

\* POST /stop_prefs, /stop_imbalance
Stop(k) ==
    /\ ~cache[k].stop_requested
    /\ cache' = [cache EXCEPT ![k].stop_requested = TRUE]
    /\ threads' = [t \in 1..MaxScans |->
                      IF threads[t].kind = k /\ InFlight(threads[t])
                      THEN [threads[t] EXCEPT !.stopped = TRUE]
                      ELSE threads[t]]
    /\ UNCHANGED <<disk, tickers_txt, spawned>>
    /\ UNCHANGED fnVars
    /\ UNCHANGED symVars
    /\ UNCHANGED evVars
    /\ UNCHANGED jobVars
    /\ UNCHANGED divVars

\* load_and_analyze_*: now_ts, status, progress, stop_requested; the clock
\* value a scan reads is its own, written here as the number of the thread.
\* Threads of one kind that wait to run are alike, and the one scheduled
\* first is numbered lowest.
ScanStart(t) ==
    /\ threads[t].pc = "pending"
    /\ \A u \in 1..(t - 1) :
          ~(threads[u].pc = "pending" /\ threads[u].kind = threads[t].kind)
    /\ cache' = [cache EXCEPT ![threads[t].kind] = ScanStarted(@)]
    /\ threads' = [threads EXCEPT ![t].pc = "setup", ![t].now_ts = t]
    /\ UNCHANGED <<disk, tickers_txt, spawned>>
    /\ UNCHANGED fnVars
    /\ UNCHANGED symVars
    /\ UNCHANGED evVars
    /\ UNCHANGED jobVars
    /\ UNCHANGED divVars

\* baseline, tickers.txt, total, and the call of the scan function; an
\* unreadable file or a rejected call ends in the except branch
ScanSetup(t) ==
    LET k == threads[t].kind
    IN  /\ threads[t].pc = "setup"
        /\ LET file == tickers_txt IN
              IF file = Unreadable
              THEN /\ cache' = [cache EXCEPT ![k].status = "error"]
                   /\ threads' = [threads EXCEPT ![t] = Finished]
              ELSE IF ~CallAccepted(k)
              THEN /\ cache' = [cache EXCEPT ![k].total = Len(file),
                                             ![k].status = "error"]
                   /\ threads' = [threads EXCEPT ![t] = Finished]
              ELSE /\ cache' = [cache EXCEPT ![k].total = Len(file)]
                   /\ threads' = [threads EXCEPT
                         ![t].pc = "running",
                         ![t].baseline = SeqToSet(cache[k].baseline_tickers),
                         ![t].frame = Enter(FnOf(k), file, ScanParams(k), TRUE)]
        /\ UNCHANGED <<disk, tickers_txt, spawned>>
        /\ UNCHANGED fnVars
        /\ UNCHANGED symVars
        /\ UNCHANGED evVars
        /\ UNCHANGED jobVars
        /\ UNCHANGED divVars

\* the scan function runs through its next progress_callback, or to its
\* return when none is left; the fetches and evaluations on the way touch no
\* shared state.  progress_wrapper stores the count and answers 'STOP' when
\* stop_requested.
ScanStep(t) ==
    LET k == threads[t].kind
        f == threads[t].frame
    IN  /\ threads[t].pc = "running"
        /\ f.pc # "returned"
        /\ \E g \in ToCallback(f) :
              IF g.pc = "returned"
              THEN /\ threads' = [threads EXCEPT ![t].frame = g]
                   /\ UNCHANGED cache
              ELSE /\ cache' = [cache EXCEPT ![k].progress = CallbackArg(g)]
                   /\ threads' = [threads EXCEPT ![t].frame =
                         AfterCallback(g, IF cache[k].stop_requested
                                          THEN "STOP" ELSE "None")]
        /\ UNCHANGED <<disk, tickers_txt, spawned>>
        /\ UNCHANGED fnVars
        /\ UNCHANGED symVars
        /\ UNCHANGED evVars
        /\ UNCHANGED jobVars
        /\ UNCHANGED divVars

\* the scan function has returned: the stop check, or is_new and the update
ScanFinish(t) ==
    LET k == threads[t].kind
        th == threads[t]
    IN  /\ th.pc = "running"
        /\ th.frame.pc = "returned"
        /\ IF cache[k].stop_requested
           THEN /\ cache' = [cache EXCEPT ![k].status = CancelledStatus(cache[k])]
                /\ threads' = [threads EXCEPT ![t] = Cancelled(th)]
           ELSE /\ cache' = [cache EXCEPT ![k] =
                      Published(@, MarkNew(th.frame.results, th.baseline), th.now_ts)]
                /\ threads' = [threads EXCEPT ![t] = Saving(th)]
        /\ UNCHANGED <<disk, tickers_txt, spawned>>
        /\ UNCHANGED fnVars
        /\ UNCHANGED symVars
        /\ UNCHANGED evVars
        /\ UNCHANGED jobVars
        /\ UNCHANGED divVars

\* save_history(kind); a failed write is swallowed and leaves the file
ScanSave(t) ==
    LET k == threads[t].kind
    IN  /\ threads[t].pc = "save"
        /\ \E written \in BOOLEAN :
              disk' = IF written THEN [disk EXCEPT ![k] = HistoryRecord(cache[k])]
                      ELSE disk
        /\ threads' = [threads EXCEPT ![t] = Finished]
        /\ UNCHANGED <<cache, tickers_txt, spawned>>
        /\ UNCHANGED fnVars
        /\ UNCHANGED symVars
        /\ UNCHANGED evVars
        /\ UNCHANGED jobVars
        /\ UNCHANGED divVars

Next ==
    \/ \E k \in DOMAIN cache : Refresh(k)
    \/ \E k \in DOMAIN cache : Stop(k)
    \/ \E t \in 1..MaxScans : ScanStart(t)
    \/ \E t \in 1..MaxScans : ScanSetup(t)
    \/ \E t \in 1..MaxScans : ScanStep(t)
    \/ \E t \in 1..MaxScans : ScanFinish(t)
    \/ \E t \in 1..MaxScans : ScanSave(t)

Spec == InitApp /\ [][Next]_vars

(***************************************************************************)
(* The fetch of one ticker (logic.py 203-218 with resolve_ticker_yf).      *)
(* live is the set of spellings the provider has data for, faulty the set  *)
(* of spellings whose history call raises.  pc: "start", "history" (the    *)
(* first history call), "resolve" (resolve_ticker_yf entered), "probe"     *)
(* (its loop over the candidates), "second" (the history call on the       *)
(* resolved spelling), and the ends "fetched" (a frame with data),         *)
(* "skipped" (`continue` at line 218) and "failed" (the except branch).    *)
(***************************************************************************)
\* characters the tickers of the model are written with
SymAlphabet == {"A", "P", "-"}

\* every ticker of up to n characters
Strings(n) == UNION {[1..m -> SymAlphabet] : m \in 1..n}

\* tickers of the override table, of the resolver's lists, and dash-less ones
NamedTickers ==
    MappingKeys \cup
    { <<"G","O","O","D","O">>, <<"C","C","I","D">>, <<"A","B","7">>,
      <<"A","B","1","7">>, <<"A","B","R","-","P","D">>,
      <<"G","O","O","D","N","P">>, <<"B","R","K","-","A","-","B">> }

RawTickers == NamedTickers \cup Strings(MaxSymLen)

\* the spellings a fetch of raw_ticker can ask the provider for
Spellings(raw_ticker) ==
    {parse_ticker_yf(raw_ticker)} \cup
    {Candidates(raw_ticker)[j] : j \in 1..Len(Candidates(raw_ticker))}

InitSym ==
    /\ \E raw \in RawTickers :
          \E live \in {L \in SUBSET Spellings(raw) : Cardinality(L) <= 2},
             faulty \in {F \in SUBSET Spellings(raw) : Cardinality(F) <= 1} :
             sym = [pc |-> "start", raw |-> raw, live |-> live,
                    faulty |-> faulty, yf |-> <<>>, tv |-> <<>>,
                    candidates |-> <<>>, idx |-> 0, resolved |-> <<>>,
                    used |-> <<>>, tries |-> 0, probes |-> <<>>]
    /\ call = NoFrame /\ data = <<>> /\ reports = <<>>
    /\ stopFlag = FALSE /\ stopAt = NeverStopped
    /\ cache = NoCache /\ disk = NoCache /\ tickers_txt = <<>>
    /\ threads = <<>> /\ spawned = 0
    /\ ev = NoEval
    /\ jobs = NoJob
    /\ div = NoDiv

\* lines 203 and 231: the provider and the chart spelling
SymParse ==
    /\ sym.pc = "start"
    /\ sym' = [sym EXCEPT !.pc = "history",
                          !.yf = parse_ticker_yf(sym.raw),
                          !.tv = parse_ticker_tv(sym.raw)]
    /\ UNCHANGED fnVars
    /\ UNCHANGED appVars
    /\ UNCHANGED evVars
    /\ UNCHANGED jobVars
    /\ UNCHANGED divVars

\* lines 207-210: the history call on the default-rule spelling; a raise
\* goes to the except branch of line 251
SymHistory ==
    /\ sym.pc = "history"
    /\ sym' = [sym EXCEPT
          !.tries = @ + 1,
          !.pc = IF sym.yf \in sym.faulty THEN "failed"
                 ELSE IF sym.yf \in sym.live THEN "fetched"
                 ELSE "resolve",
          !.used = IF sym.yf \notin sym.faulty /\ sym.yf \in sym.live
                   THEN sym.yf ELSE @]
    /\ UNCHANGED fnVars
    /\ UNCHANGED appVars
    /\ UNCHANGED evVars
    /\ UNCHANGED jobVars
    /\ UNCHANGED divVars

\* lines 161-186
SymCandidates ==
    /\ sym.pc = "resolve"
    /\ sym' = [sym EXCEPT !.pc = "probe", !.idx = 1,
                          !.candidates = Candidates(sym.raw)]
    /\ UNCHANGED fnVars
    /\ UNCHANGED appVars
    /\ UNCHANGED evVars
    /\ UNCHANGED jobVars
    /\ UNCHANGED divVars

\* AfterProbe with no return at the first hit: the loop runs on
AfterProbeKeepGoing(y, hit) ==
    IF hit THEN [y EXCEPT !.resolved = y.candidates[y.idx], !.idx = @ + 1]
    ELSE [y EXCEPT !.idx = @ + 1]

\* lines 192-195: return cand when the probe has data, else the next one
AfterProbe(y, hit) ==
    IF hit THEN [y EXCEPT !.resolved = y.candidates[y.idx], !.pc = "second"]
    ELSE [y EXCEPT !.idx = @ + 1]

\* lines 188-196: one probe, or the end of the loop (return None, and
\* line 216: the frame is still empty)
SymProbe ==
    /\ sym.pc = "probe"
    /\ IF sym.idx > Len(sym.candidates)
       THEN sym' = [sym EXCEPT !.pc = IF sym.resolved = <<>> THEN "skipped"
                                      ELSE "second"]
       ELSE LET cand == sym.candidates[sym.idx]
                hit == cand \in sym.live /\ cand \notin sym.faulty
            IN  sym' = AfterProbe([sym EXCEPT !.probes = Append(@, cand)], hit)
    /\ UNCHANGED fnVars
    /\ UNCHANGED appVars
    /\ UNCHANGED evVars
    /\ UNCHANGED jobVars
    /\ UNCHANGED divVars

\* line 214: the history call on the resolved spelling, over a longer
\* period than the probe
SymSecond ==
    /\ sym.pc = "second"
    /\ \E answer \in {"data", "empty", "exc"} :
          sym' = [sym EXCEPT
              !.pc = IF answer = "data" THEN "fetched"
                     ELSE IF answer = "empty" THEN "skipped" ELSE "failed",
              !.used = IF answer = "data" THEN sym.resolved ELSE @]
    /\ UNCHANGED fnVars
    /\ UNCHANGED appVars
    /\ UNCHANGED evVars
    /\ UNCHANGED jobVars
    /\ UNCHANGED divVars

NextSym == SymParse \/ SymHistory \/ SymCandidates \/ SymProbe \/ SymSecond

SpecSym == InitSym /\ [][NextSym]_vars

(***************************************************************************)
(* The two filters applied to one series (logic.py 220-250, 275-293).      *)
(* ev holds the series, the scanner's parameters and, once a filter has    *)
(* run, the records it appended.  The series are drawn around the          *)
(* thresholds: ranges of 1.00 and 1.0001, spreads of 0.10 and 0.00001 to   *)
(* either side, wicks of max_wick, max_wick + 0.00001 and above.           *)
(***************************************************************************)
\* a green bar that opens at 25.00 and at low 25.00 too, closing at its high
SpreadBar(low, spread) == Bar(low, low + spread, low, low + spread, 0)

SpreadBars ==
    {SpreadBar(low, spread) : low \in {2500000, 2590000, 2590010},
                              spread \in {9999, 10000, 10001}}

\* a green bar with the given lower wick
GreenBar(wick) == Bar(2500000, 2510000, 2500000 - wick, 2510000, 0)

\* a red bar with the given upper wick
RedBar(wick) == Bar(2510000, 2510000 + wick, 2500000, 2500000, 0)

\* a bar that is neither green nor red
FlatBar == Bar(2500000, 2510000, 2490000, 2500000, 0)

Run(n, b) == [j \in 1..n |-> b]

\* rows in date order
Dated(rows) == [j \in 1..Len(rows) |-> [rows[j] EXCEPT !.date = j]]

\* counts of bars around the threshold min_count
Around(min_count) == {0, min_count - 1, min_count}

\* from oldest to newest: old green bars, flat bars, red bars at the
\* limit, just over it and above it, green bars above the limit, just
\* over it and at it
WickSeries(max_wick, over, c) ==
    Dated(Run(c.old, GreenBar(max_wick)) \o Run(c.pad, FlatBar)
          \o Run(c.r, RedBar(max_wick))
          \o Run(c.rt, RedBar(max_wick + WickTolerance))
          \o Run(c.ro, RedBar(max_wick + over))
          \o Run(c.go, GreenBar(max_wick + over))
          \o Run(c.gt, GreenBar(max_wick + WickTolerance))
          \o Run(c.g, GreenBar(max_wick)))

EvalInput(bars, days, min_count, max_wick) ==
    [pc |-> "input", bars |-> bars, days |-> days, min_count |-> min_count,
     max_wick |-> max_wick, out |-> <<>>]

InitEval ==
    /\ \/ \E n \in 1..MaxBars :
            \E rows \in [1..n -> SpreadBars] :
               ev = EvalInput(Dated(rows), 1, 1, 5000)
       \/ \E days \in {8, 20, 30}, min_count \in {3, 12},
             max_wick \in {5000, 12000}, over \in {2, 100} :
            \E c \in [g : Around(min_count), r : Around(min_count),
                       gt : 0..MaxOdd, go : 0..MaxOdd,
                       rt : 0..MaxOdd, ro : 0..MaxOdd,
                       old : 0..MaxOdd, pad : {0, 8}] :
               ev = EvalInput(WickSeries(max_wick, over, c),
                              days, min_count, max_wick)
    /\ call = NoFrame /\ data = <<>> /\ reports = <<>>
    /\ stopFlag = FALSE /\ stopAt = NeverStopped
    /\ cache = NoCache /\ disk = NoCache /\ tickers_txt = <<>>
    /\ threads = <<>> /\ spawned = 0
    /\ sym = NoSym
    /\ jobs = NoJob
    /\ div = NoDiv

\* the provider's answer when the first history call has the rows
Fetched(bars) == Answer("data", FALSE, "empty", TRUE, bars)

\* fetch_and_process on the series
EvalPrefsStep ==
    /\ ev.pc = "input"
    /\ ev' = [ev EXCEPT !.pc = "prefs",
                        !.out = EvalPrefsOn("A", Fetched(ev.bars)).out]
    /\ UNCHANGED fnVars
    /\ UNCHANGED appVars
    /\ UNCHANGED symVars
    /\ UNCHANGED jobVars
    /\ UNCHANGED divVars

\* fetch_imbalance on the series
EvalImbalanceStep ==
    /\ ev.pc = "input"
    /\ ev' = [ev EXCEPT !.pc = "imbalance",
                        !.out = EvalImbalanceOn("A", Fetched(ev.bars), ev.days,
                                                ev.min_count, ev.max_wick)]
    /\ UNCHANGED fnVars
    /\ UNCHANGED appVars
    /\ UNCHANGED symVars
    /\ UNCHANGED jobVars
    /\ UNCHANGED divVars

NextEval == EvalPrefsStep \/ EvalImbalanceStep

SpecEval == InitEval /\ [][NextEval]_vars

(***************************************************************************)
(* A manual job (app.py 408-524): POST /find or /find_imbalance creates    *)
(* the entry jobs[job_id] and starts a thread on it; GET /status/<job_id>  *)
(* returns the entry.  Jobs share nothing with one another, so a behaviour *)
(* follows one job.  The thread is at "created" (started, nothing run),    *)
(* "running" (inside the scan function, see frame), "marking" (the scan    *)
(* function returned), "stored" (results written, status not yet), "done", *)
(* or "dead": an exception left the thread function, which has no try.     *)
(* seen is the last answer of /status/<job_id>.                            *)
(***************************************************************************)
NotPolled == [status |-> "none", results |-> <<>>]

\* lines 416-417 / 469-484
NewJob(kind, tickers) ==
    [pc |-> "created", kind |-> kind, status |-> "processing", progress |-> 0,
     total |-> Len(tickers), results |-> <<>>, tickers |-> tickers,
     frame |-> NoFrame, seen |-> NotPolled]

InitJob ==
    /\ jobs = NoJob
    /\ div = NoDiv
    /\ \E kind \in Kinds :
          /\ disk \in [{kind} -> {NoFile, OldFile}]
          /\ cache = [k \in {kind} |-> LoadHistory(disk[k])]
    /\ tickers_txt = <<>>
    /\ threads = <<>> /\ spawned = 0
    /\ call = NoFrame /\ data = <<>> /\ reports = <<>>
    /\ stopFlag = FALSE /\ stopAt = NeverStopped
    /\ sym = NoSym
    /\ ev = NoEval

\* POST /find, /find_imbalance with the tickers of the form
Find(kind) ==
    /\ jobs.pc = "none"
    /\ \E tickers \in TickerLists : jobs' = NewJob(kind, tickers)
    /\ UNCHANGED fnVars
    /\ UNCHANGED appVars
    /\ UNCHANGED symVars
    /\ UNCHANGED evVars
    /\ UNCHANGED divVars

\* lines 426-429 / 492-513: the call of the scan function; a call with
\* keywords the function does not have raises TypeError out of the thread
JobEntered(j) ==
    IF CallAccepted(j.kind)
    THEN [j EXCEPT !.pc = "running",
                   !.frame = Enter(FnOf(j.kind), j.tickers,
                                   ScanParams(j.kind), TRUE)]
    ELSE [j EXCEPT !.pc = "dead"]

JobStart ==
    /\ jobs.pc = "created"
    /\ jobs' = JobEntered(jobs)
    /\ UNCHANGED fnVars
    /\ UNCHANGED appVars
    /\ UNCHANGED symVars
    /\ UNCHANGED evVars
    /\ UNCHANGED divVars

\* the scan function runs through its next progress_callback, or to its
\* return; update_progress stores the count and returns None
JobStep ==
    /\ jobs.pc = "running"
    /\ \E g \in ToCallback(jobs.frame) :
          IF g.pc = "returned"
          THEN jobs' = [jobs EXCEPT !.frame = g, !.pc = "marking"]
          ELSE jobs' = [jobs EXCEPT !.progress = CallbackArg(g),
                                    !.frame = AfterCallback(g, "None")]
    /\ UNCHANGED fnVars
    /\ UNCHANGED appVars
    /\ UNCHANGED symVars
    /\ UNCHANGED evVars
    /\ UNCHANGED divVars

\* lines 431-434 / 516-522: is_new against the baseline of the kind, then
\* jobs[job_id]['results'] = results
JobStored(j, baseline) ==
    [j EXCEPT !.results = MarkNew(j.frame.results, baseline), !.pc = "stored"]

JobResults ==
    /\ jobs.pc = "marking"
    /\ jobs' = JobStored(jobs, SeqToSet(cache[jobs.kind].baseline_tickers))
    /\ UNCHANGED fnVars
    /\ UNCHANGED appVars
    /\ UNCHANGED symVars
    /\ UNCHANGED evVars
    /\ UNCHANGED divVars

\* line 435 / 524: jobs[job_id]['status'] = 'completed'
JobComplete ==
    /\ jobs.pc = "stored"
    /\ jobs' = [jobs EXCEPT !.status = "completed", !.pc = "done"]
    /\ UNCHANGED fnVars
    /\ UNCHANGED appVars
    /\ UNCHANGED symVars
    /\ UNCHANGED evVars
    /\ UNCHANGED divVars

\* GET /status/<job_id>
JobPoll ==
    /\ jobs.pc # "none"
    /\ jobs.seen # [status |-> jobs.status, results |-> jobs.results]
    /\ jobs' = [jobs EXCEPT !.seen = [status |-> jobs.status,
                                      results |-> jobs.results]]
    /\ UNCHANGED fnVars
    /\ UNCHANGED appVars
    /\ UNCHANGED symVars
    /\ UNCHANGED evVars
    /\ UNCHANGED divVars

\* the steps of the job's thread
JobThread == JobStart \/ JobStep \/ JobResults \/ JobComplete

NextJob == (\E kind \in DOMAIN cache : Find(kind)) \/ JobThread \/ JobPoll

SpecJob == InitJob /\ [][NextJob]_vars

\* a started thread is scheduled until its function ends
SpecJobFair == SpecJob /\ WF_vars(JobThread)

(***************************************************************************)
(* The dividend-recovery analyzer (logic.py, analyze_dividend_recovery)    *)
(* and its endpoint.  Days are calendar days 1..MaxDay, prices are in      *)
(* units of 0.00001 and are whole cents.  The provider's answers are       *)
(* chosen at each call.  A record without an 'error' key has error = "".   *)
(* datetime.now() is day MaxDay + 1.                                       *)
(***************************************************************************)
\* Python's None in a numeric field
None == 0 - 1

\* the frames ticker.history may return: on each day no session, a session
\* that stays under 25.00 or a session that closes at 25.00 and reaches 25.10
HistFrames ==
    LET Row(kind, d) == IF kind = "under"
                        THEN Bar(2480000, 2490000, 2470000, 2480000, d)
                        ELSE Bar(2500000, 2510000, 2490000, 2500000, d)
        Rows(f) == SelectSeq([d \in 1..MaxDay |->
                                 IF f[d] = "closed" THEN NaNBar(0)
                                 ELSE Row(f[d], d)],
                             LAMBDA b : ~b.nan)
    IN  {Rows(f) : f \in [1..MaxDay -> {"closed", "under", "reach"}]}
            \ {<<>>}

\* the series ticker.dividends or the scraper may return: one or two
\* events of 0.50, oldest first, none after today
DividendSeries ==
    LET Event(d) == [ex_date |-> d, amount |-> 50000]
    IN  {<<Event(d)>> : d \in 1..(MaxDay + 1)}
            \cup {<<Event(d[1]), Event(d[2])>> :
                     d \in {e \in (1..(MaxDay + 1)) \X (1..(MaxDay + 1)) : e[1] < e[2]}}

\* the record of a failed stage
ErrorRecord(raw_ticker, e) ==
    [ticker |-> raw_ticker, error |-> e, dividends |-> <<>>,
     current_price |-> None, days_since_last_div |-> None]

\* the close of the last session before ex_date, at most 5 days back
pre_div_close(hist, ex_date) ==
    LET back == {i \in 1..5 : \E j \in 1..Len(hist) :
                                  hist[j].date = ex_date - i}
        at == CHOOSE j \in 1..Len(hist) : hist[j].date = ex_date - SetMin(back)
    IN  IF back = {} THEN None ELSE hist[at].Close

\* one entry of dividend_analysis
AnalyseDividend(hist, event, now) ==
    LET ex_date == event.ex_date
        pre == pre_div_close(hist, ex_date)
        future_dates == SelectSeq(hist, LAMBDA b : b.date >= ex_date)
        reached == {j \in 1..Len(future_dates) : future_dates[j].High >= pre}
        latest_close == future_dates[Len(future_dates)].Close
        \* round(x, 2)
        Round2(x) == IF x >= 0 THEN ((x + 500) \div 1000) * 1000
                     ELSE 0 - (((0 - x) + 500) \div 1000) * 1000
        Entry(err, rec, days, dist) ==
            [ex_date |-> ex_date, amount |-> event.amount, error |-> err,
             pre_div_close |-> pre, recovered |-> rec,
             recovery_days |-> days, current_distance |-> dist]
    IN  IF pre = None
        THEN Entry("Price data missing", FALSE, 9999, 0)
        ELSE IF future_dates = <<>>
        THEN Entry("", FALSE, None, 0)
        ELSE IF reached # {}
        THEN Entry("", TRUE, future_dates[SetMin(reached)].date - ex_date, 0)
        ELSE Entry("", FALSE, now - ex_date, Round2(pre - latest_close))

\* the handler of the outer try: the exception escapes
CaughtReraised(d, e) == [d EXCEPT !.pc = "raised"]

\* the handler of the outer try
Caught(d, e) ==
    [d EXCEPT !.pc = "returned", !.record = ErrorRecord(d.ticker, e)]

\* POST /analyze_dividend_recovery with one ticker
InitDiv ==
    /\ div \in {[pc |-> "dividends", ticker |-> "T-A", lookback |-> lb,
                 attempt |-> 0, dividends |-> <<>>, hist |-> <<>>,
                 dividend_analysis |-> <<>>,
                 record |-> ErrorRecord("", ""), results |-> <<>>] :
                    lb \in {1, 3}}
    /\ jobs = NoJob
    /\ cache = NoCache /\ disk = NoCache /\ tickers_txt = <<>>
    /\ threads = <<>> /\ spawned = 0
    /\ call = NoFrame /\ data = <<>> /\ reports = <<>>
    /\ stopFlag = FALSE /\ stopAt = NeverStopped
    /\ sym = NoSym
    /\ ev = NoEval

\* ticker.dividends, tried max_retries times
DivDividends ==
    /\ div.pc = "dividends"
    /\ \E answer \in {"raises", "empty", "data"} :
          CASE answer = "raises" ->
                  div' = IF div.attempt = 2
                         THEN [div EXCEPT
                                  !.pc = "returned",
                                  !.record = ErrorRecord(div.ticker, "exception")]
                         ELSE [div EXCEPT !.attempt = div.attempt + 1]
            [] answer = "empty" ->
                  div' = [div EXCEPT !.pc = "sources", !.attempt = 0]
            [] answer = "data" ->
                  \E ds \in DividendSeries :
                      div' = [div EXCEPT !.pc = "history", !.attempt = 0,
                                         !.dividends = ds]
    /\ UNCHANGED fnVars
    /\ UNCHANGED appVars
    /\ UNCHANGED symVars
    /\ UNCHANGED evVars
    /\ UNCHANGED jobVars

\* no dividends: the resolved ticker, then the scraped sources
DivSources ==
    /\ div.pc = "sources"
    /\ \E answer \in {"raises", "empty", "data"} :
          CASE answer = "raises" -> div' = Caught(div, "exception")
            [] answer = "empty" ->
                  div' = [div EXCEPT
                             !.pc = "returned",
                             !.record = ErrorRecord(div.ticker,
                                                    "No dividend history found")]
            [] answer = "data" ->
                  \E ds \in DividendSeries :
                      div' = [div EXCEPT !.pc = "history", !.dividends = ds]
    /\ UNCHANGED fnVars
    /\ UNCHANGED appVars
    /\ UNCHANGED symVars
    /\ UNCHANGED evVars
    /\ UNCHANGED jobVars

\* ticker.history, tried max_retries times with its exceptions swallowed,
\* then once on the resolved ticker
DivHistory ==
    /\ div.pc = "history"
    /\ \E answer \in {"raises", "empty", "data"} :
          CASE answer = "data" ->
                  \E h \in HistFrames :
                      div' = [div EXCEPT !.pc = "analysis", !.attempt = 0,
                                         !.hist = h]
            [] answer = "raises" ->
                  div' = IF div.attempt < 3
                         THEN [div EXCEPT !.attempt = div.attempt + 1]
                         ELSE Caught(div, "exception")
            [] answer = "empty" ->
                  div' = IF div.attempt < 3
                         THEN [div EXCEPT !.attempt = div.attempt + 1]
                         ELSE [div EXCEPT
                                  !.pc = "returned",
                                  !.record = ErrorRecord(div.ticker,
                                                         "No price history found")]
    /\ UNCHANGED fnVars
    /\ UNCHANGED appVars
    /\ UNCHANGED symVars
    /\ UNCHANGED evVars
    /\ UNCHANGED jobVars

\* the loop over recent_divs = dividends.tail(lookback)
DivAnalyse ==
    /\ div.pc = "analysis"
    /\ LET n == Len(div.dividends)
           recent_divs == SubSeq(div.dividends,
                                 IF n > div.lookback THEN n - div.lookback + 1
                                 ELSE 1, n)
       IN  div' = [div EXCEPT
                      !.pc = "late",
                      !.dividend_analysis =
                          [j \in 1..Len(recent_divs) |->
                              AnalyseDividend(div.hist, recent_divs[j], (MaxDay + 1))]]
    /\ UNCHANGED fnVars
    /\ UNCHANGED appVars
    /\ UNCHANGED symVars
    /\ UNCHANGED evVars
    /\ UNCHANGED jobVars

\* days since the last dividend, the next dividend (whose date the
\* calendar may give as a string, which has no .date()), the record
DivLate ==
    /\ div.pc = "late"
    /\ \E raises \in BOOLEAN :
          div' = IF raises
                 THEN Caught(div, "exception")
                 ELSE [div EXCEPT
                          !.pc = "returned",
                          !.record =
                              [ticker |-> div.ticker, error |-> "",
                               dividends |-> div.dividend_analysis,
                               current_price |->
                                   div.hist[Len(div.hist)].Close,
                               days_since_last_div |->
                                   (MaxDay + 1) - div.dividends[Len(div.dividends)].ex_date]]
    /\ UNCHANGED fnVars
    /\ UNCHANGED appVars
    /\ UNCHANGED symVars
    /\ UNCHANGED evVars
    /\ UNCHANGED jobVars

\* the endpoint's loop: the record is appended; an exception ends the
\* request
DivEndpoint ==
    /\ div.pc \in {"returned", "raised"}
    /\ div' = IF div.pc = "returned"
              THEN [div EXCEPT !.pc = "responded",
                               !.results = Append(div.results, div.record)]
              ELSE [div EXCEPT !.pc = "aborted"]
    /\ UNCHANGED fnVars
    /\ UNCHANGED appVars
    /\ UNCHANGED symVars
    /\ UNCHANGED evVars
    /\ UNCHANGED jobVars

NextDiv ==
    \/ DivDividends
    \/ DivSources
    \/ DivHistory
    \/ DivAnalyse
    \/ DivLate
    \/ DivEndpoint

SpecDiv == InitDiv /\ [][NextDiv]_vars

(***************************************************************************)
(* Reference results: the matches of a ticker list evaluated one ticker    *)
(* after the other, with no cancellation.                                  *)
(***************************************************************************)
RECURSIVE ScanAll(_, _, _, _, _)
ScanAll(fn, tks, dat, days, p) ==
    IF tks = <<>> THEN <<>>
    ELSE LET t == Head(tks)
             a == Head(dat)
             out == IF fn = "fetch_and_process" THEN EvalPrefs(t, a).out
                    ELSE IF fn = "fetch_imbalance"
                    THEN EvalImbalance(t, a, days, p.min_count, p.max_wick)
                    ELSE EvalRange(t, a, days, p).out
             d == IF fn = "fetch_range_ai" THEN EvalRange(t, a, days, p).days
                  ELSE days
         IN  out \o ScanAll(fn, Tail(tks), Tail(dat), d, p)

\* the entries of s at the positions whose answer is not a failure
RECURSIVE KeepOk(_, _)
KeepOk(s, dat) ==
    IF s = <<>> THEN <<>>
    ELSE IF Head(dat) \in FailingAnswers THEN KeepOk(Tail(s), Tail(dat))
    ELSE <<Head(s)>> \o KeepOk(Tail(s), Tail(dat))

\* rs, read in order, maps into tks without ever stepping back
RECURSIVE Embeds(_, _, _)
Embeds(rs, tks, from) ==
    IF rs = <<>> THEN TRUE
    ELSE LET at == {j \in from..Len(tks) : tks[j] = Head(rs).ticker}
         IN  at # {} /\ Embeds(Tail(rs), tks, SetMin(at))

(***************************************************************************)
(* Claims about the scan functions called directly (SpecFn).               *)
(***************************************************************************)
\* the progress count the sink holds: 0 until the first report
LastReport == IF reports = <<>> THEN 0 ELSE reports[Len(reports)]

\* C3: when cancellation is signalled at the head of the loop with exactly k
\* tickers processed, the function returns exactly the matches of the first
\* k tickers and the last progress count reported is k.
C3_CancelAfterK ==
    (call.pc = "returned" /\ stopAt.set /\ stopAt.at_head) =>
        /\ call.results = ScanAll(call.fn, SubSeq(call.tickers, 1, stopAt.k),
                                  SubSeq(data, 1, stopAt.k), call.p.days, call.p)
        /\ LastReport = stopAt.k

\* C6: the progress counts a scan hands to its sink, after the reset to 0 at
\* the start of the scan, never decrease.
C6_ProgressNeverDecreases ==
    \A j \in 1..Len(reports) :
        (IF j = 1 THEN 0 ELSE reports[j - 1]) <= reports[j]

C6_Witness ==
    /\ call.pc = "returned"
    /\ Len(reports) >= 3
    /\ reports[Len(reports)] > reports[1]

\* C7: a scan that is not cancelled returns, and its matches are those of
\* the ticker list with every failing ticker taken out.
C7_FailuresDoNotAbort ==
    (call.pc = "returned" /\ ~stopFlag) =>
        call.results = ScanAll(call.fn, KeepOk(call.tickers, data),
                               KeepOk(data, data), call.p.days, call.p)

C7_Witness ==
    /\ call.pc = "returned" /\ ~stopFlag
    /\ Len(call.tickers) >= 3
    /\ data[1] = "tight" /\ data[2] \in FailingAnswers /\ data[3] = "both"
    /\ Len(call.results) >= 2
    /\ call.results[Len(call.results)].ticker = call.tickers[3]

\* C8: the tickers of the matches, read in order, follow the order of the
\* input ticker list.
C8_IterationOrder == Embeds(call.results, call.tickers, 1)

C8_Witness ==
    /\ call.pc = "returned"
    /\ Len(call.tickers) >= 2
    /\ Len(call.results) >= 2
    /\ call.results[1].ticker = call.tickers[1]
    /\ call.results[Len(call.results)].ticker = call.tickers[2]
    /\ call.tickers[1] # call.tickers[2]

(***************************************************************************)
(* Claims about the web process (Spec).                                    *)
(***************************************************************************)
\* the scan threads of a kind between line 224 / 285 and their last write
\* of the cache
Mutating(k) ==
    {t \in 1..MaxScans : threads[t].kind = k
                          /\ threads[t].pc \in {"setup", "running"}}

\* thread t writes its results to the cache in this step (lines 263-269)
Publishes(t) == threads[t].pc = "running" /\ threads'[t].pc = "save"

\* thread t is at the stop check of line 250 / 312 with stop_requested set
\* and takes its step
TakesCancelBranch(t) ==
    /\ threads[t].pc = "running"
    /\ threads[t].frame.pc = "returned"
    /\ cache[threads[t].kind].stop_requested
    /\ threads'[t] # threads[t]

\* C1: at most one scan of a kind is mutating the ScanState of that kind.
C1_OneScanAtATime ==
    \A k \in DOMAIN cache : Cardinality(Mutating(k)) <= 1

\* C2: when a scan publishes, a result is flagged new exactly when its
\* ticker is not among the tickers matched by the most recent earlier
\* completed scan, which are the baseline tickers the cache holds.
C2_NewIffAbsentFromLastCompleted ==
    [][\A t \in 1..MaxScans : Publishes(t) =>
          LET k == threads[t].kind
          IN  \A j \in 1..Len(cache'[k].results) :
                 cache'[k].results[j].is_new <=>
                     cache'[k].results[j].ticker
                         \notin SeqToSet(cache[k].baseline_tickers)]_vars

C5_CompletionReportsTotal ==
    \A t \in 1..MaxScans :
        (/\ threads[t].pc = "save"
         /\ \A u \in 1..MaxScans \ {t} : threads[u].pc \in {"unused", "pending"})
        => LET k == threads[t].kind
           IN  /\ cache[k].progress = cache[k].total
               /\ cache[k].status = "completed"
               /\ cache[k].last_updated_ts = threads[t].now_ts

\* C9: the results a kind exposes change only in a step in which a scan
\* publishes and the status becomes "completed"; a scan start, a progress
\* report or a cancellation leaves them as the last completed scan set them.
C9_ResultsHeldUntilCompleted ==
    [][\A k \in DOMAIN cache :
          cache'[k].results # cache[k].results =>
              /\ cache'[k].status = "completed"
              /\ \E t \in 1..MaxScans : Publishes(t) /\ threads[t].kind = k]_vars

C9_Witness ==
    \E k \in DOMAIN cache :
        /\ cache[k].status = "processing"
        /\ cache[k].results # <<>>
        /\ cache[k].progress >= 1
        /\ \E t \in 1..MaxScans : threads[t].pc = "running"

FailsAsWhole(t) == threads[t].pc = "setup" /\ threads'[t].pc = "done"

Parsed == sym.pc \notin {"none", "start"}

\* number of dashes in s
DashCount(s) == Cardinality({j \in 1..Len(s) : s[j] = "-"})

C13_OverrideFirst ==
    Parsed =>
      /\ \A m \in TICKER_MAPPINGS : sym.raw = m[1] => sym.yf = m[2]
      /\ (\A m \in TICKER_MAPPINGS : sym.raw # m[1]) =>
             sym.yf = DefaultRule(sym.raw)

\* the table's value for a key whose dash-rule spelling is another one
C13_Witness ==
    /\ Parsed
    /\ sym.raw \in MappingKeys
    /\ sym.yf # DefaultRule(sym.raw)
    /\ sym.yf = Mapped(sym.raw)

\* C14: the chart spelling is the provider spelling with every "-P"
\* replaced by "/P", also for suffixes of several characters and for the
\* tickers of the override table.
C14_ChartMirrorsProvider ==
    Parsed =>
      /\ Len(sym.tv) = Len(sym.yf)
      /\ \A j \in 1..Len(sym.yf) :
            sym.tv[j] = IF /\ sym.yf[j] = "-"
                           /\ j < Len(sym.yf)
                           /\ sym.yf[j + 1] = "P"
                        THEN "/" ELSE sym.yf[j]

\* C15: the candidate spellings the resolver probes hold no spelling
\* twice and start with the default-rule result, for dash-less tickers
\* and for the tickers of the resolver's own override lists too.
C15_CandidatesDistinct ==
    sym.pc \in {"probe", "second", "skipped", "fetched", "failed"} =>
      (sym.candidates # <<>> =>
         /\ sym.candidates[1] = sym.yf
         /\ \A i, j \in 1..Len(sym.candidates) :
               sym.candidates[i] = sym.candidates[j] => i = j)

\* the candidate at position j has data and its probe does not raise
Hit(j) ==
    sym.candidates[j] \in sym.live /\ sym.candidates[j] \notin sym.faulty

\* C16: after an empty answer for the default-rule spelling the
\* candidates are probed in order and the first one whose probe has data
\* is the resolved spelling; when none has, the ticker is skipped with
\* no error and no spelling used.
C16_FirstLiveCandidate ==
    sym.pc \in {"probe", "second", "skipped", "fetched", "failed"} =>
      (sym.candidates # <<>> =>
         /\ Len(sym.probes) <= Len(sym.candidates)
         /\ sym.probes = SubSeq(sym.candidates, 1, Len(sym.probes))
         /\ sym.resolved # <<>> =>
               LET first == SetMin({j \in 1..Len(sym.candidates) : Hit(j)})
               IN  /\ \E j \in 1..Len(sym.candidates) : Hit(j)
                   /\ sym.resolved = sym.candidates[first]
                   /\ Len(sym.probes) = first
         /\ (sym.pc = "skipped" /\ sym.resolved = <<>>) =>
               /\ \A j \in 1..Len(sym.candidates) : ~Hit(j)
               /\ sym.probes = sym.candidates
               /\ sym.used = <<>>
         /\ (sym.pc = "fetched") => sym.used = sym.resolved)

\* a later candidate was taken although one after it has data as well
C16_Witness ==
    /\ sym.pc = "fetched"
    /\ sym.resolved # <<>>
    /\ sym.used = sym.resolved
    /\ Len(sym.probes) >= 2
    /\ \E j \in (Len(sym.probes) + 1)..Len(sym.candidates) : Hit(j)

\* C17: an exception from the history call is retried up to 3 times for
\* the same ticker before the candidates are tried; the ticker is given
\* up only after the retries and the candidates are exhausted.
C17_RetriedThreeTimes ==
    sym.pc = "failed" =>
      /\ sym.tries = 3
      /\ sym.candidates # <<>>
      /\ sym.probes = sym.candidates

(***************************************************************************)
(* Claims about the filters, checked in SpecEval.                          *)
(***************************************************************************)
\* df.tail(days) as positions of the series
Window == {j \in 1..Len(ev.bars) : j > Len(ev.bars) - ev.days}

\* green bars of the window whose lower wick is at most limit
GreenWithin(limit) ==
    Cardinality({j \in Window : /\ ev.bars[j].Close > ev.bars[j].Open
                                /\ ev.bars[j].Open - ev.bars[j].Low <= limit})

\* red bars of the window whose upper wick is at most limit
RedWithin(limit) ==
    Cardinality({j \in Window : /\ ev.bars[j].Close < ev.bars[j].Open
                                /\ ev.bars[j].High - ev.bars[j].Open <= limit})

\* the records of the given type the scanner appended
Labelled(type) == SelectSeq(ev.out, LAMBDA rec : rec.type = type)

\* the scanner ran on a series that has at least `days` bars
Scanned == ev.pc = "imbalance" /\ Len(ev.bars) >= ev.days

\* C18: the range-compression filter emits a match for a series exactly
\* when max(High) - min(Low) <= 1.00 and mean(High - Low) >= 0.10, both
\* bounds included: range exactly 1.00 with mean spread exactly 0.10
\* matches, range 1.0001 does not.  An empty frame has neither quantity
\* and gives no match.
C18_InclusiveBounds ==
    ev.pc = "prefs" =>
      LET n == Len(ev.bars)
          range == SetMax({ev.bars[j].High : j \in 1..n})
                     - SetMin({ev.bars[j].Low : j \in 1..n})
          spreads == SeqSum([j \in 1..n |-> ev.bars[j].High - ev.bars[j].Low])
      IN  IF n = 0 THEN ev.out = <<>>
          ELSE /\ Len(ev.out) <= 1
               /\ ev.out # <<>> <=>
                     (range <= 100000 /\ spreads >= 10000 * n)
               /\ (range = 100000 /\ spreads = 10000 * n) => ev.out # <<>>
               /\ range = 100010 => ev.out = <<>>

\* a match with the range at 1.00 and the mean spread at 0.10, the mean
\* taken over unequal spreads
C18_Witness ==
    /\ ev.pc = "prefs"
    /\ ev.out # <<>>
    /\ Len(ev.bars) >= 2
    /\ SetMax(Highs(ev.bars)) - SetMin(Lows(ev.bars)) = 100000
    /\ SeqSum([j \in 1..Len(ev.bars) |-> ev.bars[j].High - ev.bars[j].Low])
          = 10000 * Len(ev.bars)
    /\ \E j \in 1..Len(ev.bars) : ev.bars[j].High - ev.bars[j].Low # 10000

\* C19 as stated: a green bar of the last `days` bars qualifies exactly
\* when Open - Low <= maxWick, and the ticker is labelled Long exactly
\* when minCount such bars exist.
C19_WickAtMostMaxWick ==
    Scanned =>
      /\ Labelled("Long") # <<>> <=> GreenWithin(ev.max_wick) >= ev.min_count
      /\ \A j \in 1..Len(ev.out) :
            ev.out[j].type = "Long" =>
               ev.out[j].match_count = GreenWithin(ev.max_wick)

\* C19 amended: a green bar of the last `days` bars qualifies exactly
\* when Open - Low <= maxWick + 0.00001, and the ticker is labelled Long
\* exactly when minCount such bars exist; bars whose wick is above that
\* limit (0.051 against 0.05) do not count.
C19_WickWithinTolerance ==
    Scanned =>
      /\ Labelled("Long") # <<>> <=>
            GreenWithin(ev.max_wick + 1) >= ev.min_count
      /\ \A j \in 1..Len(ev.out) :
            ev.out[j].type = "Long" =>
               ev.out[j].match_count = GreenWithin(ev.max_wick + 1)

\* Long owing to a bar whose wick is 0.00001 over maxWick
C19_Witness ==
    /\ Scanned
    /\ Labelled("Long") # <<>>
    /\ GreenWithin(ev.max_wick) = ev.min_count - 1
    /\ GreenWithin(ev.max_wick + 1) = ev.min_count

\* C20 as stated: one label, green first: Long when the qualifying green
\* bars reach minCount, Short only when they do not and the qualifying
\* red bars do; never more than one record for a ticker.
C20_SingleLabelGreenFirst ==
    Scanned =>
      LET greens == GreenWithin(ev.max_wick + WickTolerance)
          reds == RedWithin(ev.max_wick + WickTolerance)
      IN  /\ Len(ev.out) <= 1
          /\ Labelled("Long") # <<>> <=> greens >= ev.min_count
          /\ Labelled("Short") # <<>> <=>
                (greens < ev.min_count /\ reds >= ev.min_count)

\* C20 amended: the two labels are decided independently: Long when the
\* qualifying green bars reach minCount and Short when the qualifying red
\* bars do, so a ticker yields up to two records, Long before Short.
C20_BothLabelsLongFirst ==
    Scanned =>
      LET greens == GreenWithin(ev.max_wick + WickTolerance)
          reds == RedWithin(ev.max_wick + WickTolerance)
      IN  /\ Len(Labelled("Long")) = (IF greens >= ev.min_count THEN 1 ELSE 0)
          /\ Len(Labelled("Short")) = (IF reds >= ev.min_count THEN 1 ELSE 0)
          /\ Len(ev.out) = Len(Labelled("Long")) + Len(Labelled("Short"))
          /\ Len(ev.out) = 2 =>
                ev.out[1].type = "Long" /\ ev.out[2].type = "Short"

\* one ticker with a Long and a Short record
C20_Witness ==
    /\ Scanned
    /\ Len(ev.out) = 2
    /\ ev.out[1].type = "Long"
    /\ ev.out[2].type = "Short"

(***************************************************************************)
(* Further claims about a direct call of a scan function (SpecFn).         *)
(***************************************************************************)
\* C23: once the cancellation flag is set during a scan no ticker after
\* the one in flight is fetched or evaluated, also when the ticker in
\* flight, or the ones after it, are skipped for empty data.
C23_NoTickerAfterCancel ==
    stopAt.set => Processed(call) <= stopAt.k + 1

\* C24: the progress sink is invoked after each ticker with the count of
\* tickers handled so far, whatever the ticker's outcome; no ticker is
\* passed over without a report.
C24_EveryTickerReported ==
    (call.pc = "returned" /\ call.has_cb /\ ~stopAt.set) =>
        \A j \in 1..Len(call.tickers) :
            \E n \in 1..Len(reports) : reports[n] = j

\* C26: in one Range AI batch every ticker is evaluated over the last
\* `days` bars for the `days` the caller supplied, and every match
\* reports that value, whatever tickers came before it in the batch.
C26_LookbackFixed ==
    call.fn = "fetch_range_ai" =>
        /\ call.days = call.p.days
        /\ \A j \in 1..Len(call.results) :
              call.results[j].days = call.p.days

(***************************************************************************)
(* Further claims about the web process (Spec).                            *)
(***************************************************************************)
\* C27: a stop request handled after a refresh request was accepted is
\* never lost: the scan the refresh started does not go on to publish.
C27_StopNeverLost ==
    [][\A t \in 1..MaxScans : Publishes(t) => ~threads[t].stopped]_vars

\* thread t takes a step of load_and_analyze_* other than the update of
\* lines 263-269 / 325-331 and the save_history call after it
StepsUnpublished(t) ==
    /\ threads'[t] # threads[t]
    /\ threads[t].pc \in {"pending", "setup", "running"}
    /\ ~(/\ threads[t].pc = "running"
         /\ threads[t].frame.pc = "returned"
         /\ ~cache[threads[t].kind].stop_requested)

\* C28: a scan that ends cancelled has left the published results, the
\* baseline tickers and the timestamp of its kind as they were and has
\* written nothing to the history file: none of its steps, from its start
\* to the return of the cancel branch, changes them, and the cancel branch
\* changes the status only.
C28_CancelledLeavesPublished ==
    [][\A t \in 1..MaxScans :
          LET k == threads[t].kind
          IN  /\ StepsUnpublished(t) =>
                    /\ cache'[k].results = cache[k].results
                    /\ cache'[k].baseline_tickers = cache[k].baseline_tickers
                    /\ cache'[k].last_updated_ts = cache[k].last_updated_ts
                    /\ disk' = disk
              /\ TakesCancelBranch(t) =>
                    /\ threads'[t].pc = "done"
                    /\ cache' = [cache EXCEPT ![k].status = cache'[k].status]
       ]_vars

\* a cancelled scan has ended and the results loaded from the history
\* file are still the published ones, the file as it was
C28_Witness ==
    \E k \in DOMAIN cache :
        /\ \A t \in 1..MaxScans : threads[t].pc \in {"unused", "done"}
        /\ spawned = 1
        /\ cache[k].stop_requested
        /\ cache[k].status = "completed"
        /\ cache[k].total >= 1
        /\ cache[k].results = OldFile.results
        /\ cache[k].baseline_tickers = OldFile.baseline_tickers
        /\ cache[k].last_updated_ts = OldFile.last_updated_ts
        /\ disk[k] = OldFile

\* C30: a forced wick-imbalance background scan over a readable ticker
\* file with no stop request ends with status "completed", never "error":
\* the evaluator accepts the arguments the web layer passes.
C30_ImbalanceScanCompletes ==
    \A k \in DOMAIN cache :
        (k = "imbalance" /\ tickers_txt # Unreadable /\ ~cache[k].stop_requested)
            => cache[k].status # "error"

(***************************************************************************)
(* Claim about manual jobs (SpecJobFair).                                  *)
(***************************************************************************)
\* C29: every manual job created by /find or /find_imbalance eventually
\* leaves status "processing" and reaches "completed", and from then on
\* its results are the final result list of the scan.
C29_JobCompletes ==
    (jobs.pc = "created") ~>
        (/\ jobs.pc = "done"
         /\ jobs.status = "completed"
         /\ jobs.frame.pc = "returned"
         /\ TickersOf(jobs.results) = TickersOf(jobs.frame.results))

(***************************************************************************)
(* Claim about short series (SpecEval).                                    *)
(***************************************************************************)
\* C25: every evaluator checks the cleaned series against its minimum
\* length before it classifies: a series shorter than the lookback `days`
\* of the wick-imbalance scanner, or than the range-compression filter's
\* minimum (15 bars, the least minimum of any evaluator), gives no match.
C25_ShortSeriesSkipped ==
    /\ (ev.pc = "imbalance" /\ Len(ev.bars) < ev.days) => ev.out = <<>>
    /\ (ev.pc = "prefs" /\ Len(ev.bars) < 15) => ev.out = <<>>

(***************************************************************************)
(* The dividend-recovery analyzer.                                         *)
(***************************************************************************)
\* C21: whatever the provider does (exceptions on the dividend call, no
\* dividends from any source, no price history, a missing pre-dividend
\* price, an exception in a later stage), the analyzer returns a
\* well-formed record: a failed stage gives a record with an error, an empty
\* dividend list and null numeric fields, a missing pre-dividend price is
\* flagged on its dividend, and no exception reaches the endpoint's loop,
\* which answers with one record for the ticker.
C21_AlwaysARecord ==
    LET WellFormed(r) ==
            /\ r.ticker = div.ticker
            /\ IF r.error # ""
               THEN /\ r.dividends = <<>>
                    /\ r.current_price = None
                    /\ r.days_since_last_div = None
               ELSE /\ r.dividends # <<>>
                    /\ \A j \in 1..Len(r.dividends) :
                          \/ /\ r.dividends[j].error = ""
                             /\ r.dividends[j].pre_div_close # None
                          \/ /\ r.dividends[j].error = "Price data missing"
                             /\ ~r.dividends[j].recovered
    IN
    /\ div.pc \notin {"none", "raised", "aborted"}
    /\ div.pc = "returned" =>
          /\ WellFormed(div.record)
          /\ (div.dividends = <<>> \/ div.hist = <<>>) => div.record.error # ""
    /\ div.pc = "responded" =>
          /\ Len(div.results) = 1
          /\ WellFormed(div.results[1])

\* the endpoint has answered with the error record of an exception raised
\* after the dividends were analysed, one of them without a pre-dividend
\* price
C21_Witness ==
    /\ div.pc = "responded"
    /\ div.results[1].error = "exception"
    /\ div.hist # <<>>
    /\ \E j \in 1..Len(div.dividend_analysis) :
          div.dividend_analysis[j].error = "Price data missing"

\* C22: for each analysed dividend with a known preDivClose, recovered
\* holds exactly when some bar dated on or after the ex-date has
\* High >= preDivClose, and recoveryDays is then the calendar days from the
\* ex-date to the first such bar; when there is no such bar, recovered is
\* false, recoveryDays is the calendar days from the ex-date to now and
\* currentDistance = preDivClose - most recent close.
C22_RecoveryReported ==
    div.pc = "late" =>
        \A j \in 1..Len(div.dividend_analysis) :
            LET e == div.dividend_analysis[j]
                hits == {k \in 1..Len(div.hist) :
                            /\ div.hist[k].date >= e.ex_date
                            /\ div.hist[k].High >= e.pre_div_close}
            IN  e.pre_div_close # None =>
                    /\ e.recovered <=> hits # {}
                    /\ e.recovered =>
                          e.recovery_days
                              = div.hist[SetMin(hits)].date - e.ex_date
                    /\ ~e.recovered =>
                          /\ e.recovery_days = (MaxDay + 1) - e.ex_date
                          /\ e.current_distance
                                 = e.pre_div_close
                                       - div.hist[Len(div.hist)].Close
====
